---- MODULE Spec2Model ----
(***************************************************************************)
(* Model of the Screenshot Ninja plugin (src/__init__.py).                 *)
(*                                                                         *)
(* The plugin registers six commands.  A command looks a widget up, renders *)
(* it into a QPixmap whose size is the widget rectangle times a scale,     *)
(* asks for an output path and saves the pixmap, reporting a failure with  *)
(* a modal message box.  The handler blocks in the three modal calls       *)
(* (get_int_input, get_save_filename_input, show_message_box); each block  *)
(* is a value of pc.                                                       *)
(***************************************************************************)
EXTENDS Integers, Sequences, FiniteSets

\* ---- bounds of the model ------------------------------------------------
\* widget rectangles are 1..MaxDim wide and high
MaxDim == 2
\* the multiplier prompt answers -MaxNegScale .. MaxScale
MaxScale == 3
MaxNegScale == 1
\* the save prompt answers byte strings of 1..MaxPathLen bytes
MaxPathLen == 2

\* ---- optional values (Python's None) -------------------------------------
None == <<>>
Some(x) == <<x>>
Get(o) == o[1]

\* ---- the values the host and the user can supply --------------------------
\* "a", and 0xE9, a byte outside ASCII
PathBytes == {97, 233}
Paths == UNION {[1..n -> PathBytes] : n \in 1..MaxPathLen}
ScaleInputs == (0 - MaxNegScale)..MaxScale
Dims == 1..MaxDim
Widgets(id) == {[id |-> id, width |-> a, height |-> b] : a \in Dims, b \in Dims}
\* the GUI is read, never kept: what QApplication.activeWindow() can return,
\* a widget or None
WindowStates == {None} \cup {Some(x) : x \in Widgets("main_window")}
\* DockHandler.getActiveDockHandler() / getViewFrame() / getCurrentWidget(),
\* each of which can come back as None
WidgetStates == {None} \cup {Some(x) : x \in Widgets("view_widget")}
ViewFrameStates == {None} \cup {Some([currentWidget |-> x]) : x \in WidgetStates}
DockHandlerStates == {None} \cup {Some([viewFrame |-> x]) : x \in ViewFrameStates}

VARIABLES
    commands,       \* the host's command registry after the module is imported
    pc,             \* the function or modal call the handler is in; "idle" between commands
    handler,        \* the handler that is running ("" when none)
    scale,          \* local `scale` (optional integer)
    w,              \* save_widget_image's parameter `w` (optional widget; <<None>> is a None argument)
    img,            \* local `img` (optional pixmap)
    save_path,      \* local `save_path` (optional byte string)
    invoked,        \* history: index in `commands` of the last command invoked (0: none yet)
    trace,          \* history: the calls of the last invocation, in order
    entered,        \* history: what the multiplier prompt returned
    looked,         \* history: what the widget lookup returned
    chosen,         \* history: what the save prompt returned
    rendered,       \* history: the w.render call of the last invocation
    written,        \* history: the img.save calls of the last invocation
    dialogs,        \* history: the message boxes shown by the last invocation
    stdout,         \* history: the lines printed by the last invocation
    raised          \* history: the exception the last invocation ended in ("" when none)

locals == <<handler, scale, w, img, save_path>>
history == <<invoked, entered, looked, chosen>>
outputs == <<rendered, written, dialogs, stdout>>
vars == <<commands, pc, handler, scale, w, img, save_path,
          invoked, trace, entered, looked, chosen, rendered, written, dialogs, stdout, raised>>

\* ---- QRect, QSize, QPixmap ------------------------------------------------
\* QRect keeps its corners; width is x2 - x1 + 1
QRect(x, y, width, height) == [x1 |-> x, y1 |-> y, x2 |-> x + width - 1, y2 |-> y + height - 1]
Width(r) == r.x2 - r.x1 + 1
Height(r) == r.y2 - r.y1 + 1
SetWidth(r, width) == [r EXCEPT !.x2 = r.x1 + width - 1]
SetHeight(r, height) == [r EXCEPT !.y2 = r.y1 + height - 1]
Size(r) == [width |-> Width(r), height |-> Height(r)]
\* QWidget.rect(): the widget's own rectangle, at the origin
Rect(widget) == QRect(0, 0, widget.width, widget.height)

\* scaled_size(r, scale): the size of a copy of r scaled by `scale`.  The
\* result carries r as the call leaves it, to show the argument is untouched.
ScaledSize(r, s) ==
    LET t == SetHeight(SetWidth(r, Width(r) * s), Height(r) * s)
    IN  [size |-> Size(t), r |-> r]

\* QPixmap(size) followed by setDevicePixelRatio(scale): a size with a
\* non-positive side gives the null pixmap (0 x 0), which ignores the ratio
QPixmap(size, s) ==
    IF size.width > 0 /\ size.height > 0
    THEN [width |-> size.width, height |-> size.height, dpr |-> s, null |-> FALSE]
    ELSE [width |-> 0, height |-> 0, dpr |-> 1, null |-> TRUE]

\* bytes.decode("ascii"): the code points of the bytes, or UnicodeDecodeError
\* (None) when a byte is outside ASCII
AsciiLimit == 128
DecodeAscii(bytes) ==
    IF \A i \in 1..Len(bytes) : bytes[i] < AsciiLimit
    THEN Some([i \in 1..Len(bytes) |-> bytes[i]])
    ELSE None

\* ---- command registration -------------------------------------------------
Registered ==
    << [label |-> "Screenshot Ninja \\ Save view image @ 1x...",
        description |-> "Save an image of the currently visible linear/graph view at 1x scaling",
        handler |-> "_ui_save_view_image_1x"],
       [label |-> "Screenshot Ninja \\ Save view image @ 2x...",
        description |-> "Save an image of the currently visible linear/graph view at 2x scaling",
        handler |-> "_ui_save_view_image_2x"],
       [label |-> "Screenshot Ninja \\ Save view image...",
        description |-> "Save an image of the currently visible linear/graph view at custom scaling",
        handler |-> "_ui_save_view_image_custom"],
       [label |-> "Screenshot Ninja \\ Save window image @ 1x...",
        description |-> "Save an image of the main window at 1x scaling",
        handler |-> "_ui_save_window_image_1x"],
       [label |-> "Screenshot Ninja \\ Save window image @ 2x...",
        description |-> "Save an image of the main window at 2x scaling",
        handler |-> "_ui_save_window_image_2x"],
       [label |-> "Screenshot Ninja \\ Save window image...",
        description |-> "Save an image of the main window at custom scaling",
        handler |-> "_ui_save_window_image_custom"] >>

Init ==
    /\ commands = Registered
    /\ pc = "idle"
    /\ handler = ""
    /\ scale = None
    /\ w = None
    /\ img = None
    /\ save_path = None
    /\ invoked = 0
    /\ trace = <<>>
    /\ entered = None
    /\ looked = None
    /\ chosen = None
    /\ rendered = None
    /\ written = <<>>
    /\ dialogs = <<>>
    /\ stdout = <<>>
    /\ raised = ""

\* ---- leaving the handler ----------------------------------------------------
\* the handler returns to the host: its frames, and their locals, are gone
Return ==
    /\ pc' = "idle"
    /\ handler' = ""
    /\ scale' = None
    /\ w' = None
    /\ img' = None
    /\ save_path' = None

\* an exception nothing catches unwinds the handler
Raise(exc) ==
    /\ raised' = exc
    /\ Return

\* show_message_box("Error", text, OKButtonSet, ErrorIcon): modal
ErrorBox(text) == [title |-> "Error", text |-> text]

\* ---- the host ---------------------------------------------------------------
\* the user picks a registered command from the menu
Invoke(i) ==
    /\ pc = "idle"
    /\ i \in 1..Len(commands)
    /\ pc' = commands[i].handler
    /\ handler' = commands[i].handler
    /\ invoked' = i
    /\ trace' = <<>>
    /\ entered' = None
    /\ looked' = None
    /\ chosen' = None
    /\ rendered' = None
    /\ written' = <<>>
    /\ dialogs' = <<>>
    /\ stdout' = <<>>
    /\ raised' = ""
    /\ UNCHANGED <<commands, scale, w, img, save_path>>

\* ---- command shorthands -----------------------------------------------------
Call(function, s) ==
    /\ pc' = function
    /\ scale' = s
    /\ UNCHANGED <<commands, handler, w, img, save_path, history, trace, outputs, raised>>

UiSaveViewImage1x == pc = "_ui_save_view_image_1x" /\ Call("save_active_view_image", Some(1))

UiSaveViewImage2x == pc = "_ui_save_view_image_2x" /\ Call("save_active_view_image", Some(2))

UiSaveWindowImage1x == pc = "_ui_save_window_image_1x" /\ Call("save_active_window_image", Some(1))

\* variant: the window shorthand pasted from the view one
UiSaveWindowImage2xCallsView == pc = "_ui_save_window_image_2x" /\ Call("save_active_view_image", Some(2))
UiSaveWindowImage2x == pc = "_ui_save_window_image_2x" /\ Call("save_active_window_image", Some(2))

\* the custom handlers open the multiplier prompt ...
UiSaveViewImageCustom ==
    /\ pc = "_ui_save_view_image_custom"
    /\ pc' = "get_int_input"
    /\ trace' = Append(trace, "get_int_input")
    /\ UNCHANGED <<commands, locals, history, outputs, raised>>

UiSaveWindowImageCustom ==
    /\ pc = "_ui_save_window_image_custom"
    /\ pc' = "get_int_input"
    /\ trace' = Append(trace, "get_int_input")
    /\ UNCHANGED <<commands, locals, history, outputs, raised>>

\* ... and go on when it returns: None when the user cancelled
IntInputReturns(answer, function) ==
    /\ pc = "get_int_input"
    /\ entered' = answer
    /\ IF answer # None
       THEN /\ trace' = Append(trace, "get_int_input:ok")
            /\ pc' = function
            /\ scale' = answer
            /\ UNCHANGED <<handler, w, img, save_path>>
       ELSE /\ trace' = Append(trace, "get_int_input:cancel")
            /\ Return
    /\ UNCHANGED <<commands, invoked, looked, chosen, outputs, raised>>

UiSaveViewImageCustomAnswered(answer) ==
    /\ handler = "_ui_save_view_image_custom"
    /\ IntInputReturns(answer, "save_active_view_image")

UiSaveWindowImageCustomAnswered(answer) ==
    /\ handler = "_ui_save_window_image_custom"
    /\ IntInputReturns(answer, "save_active_window_image")

\* ---- command implementations ------------------------------------------------
\* variant: the window is passed on without the None check
SaveActiveWindowImageUnchecked(main_window) ==
    /\ pc = "save_active_window_image"
    /\ looked' = Some(main_window)
    /\ trace' = Append(trace, "activeWindow")
    /\ pc' = "save_widget_image"
    /\ w' = Some(main_window)
    /\ UNCHANGED <<commands, handler, scale, img, save_path, invoked, entered, chosen,
                   outputs, raised>>

\* save_active_window_image(scale); main_window is what
\* QApplication.activeWindow() returns
SaveActiveWindowImage(main_window) ==
    /\ pc = "save_active_window_image"
    /\ looked' = Some(main_window)
    /\ IF main_window # None
       THEN /\ trace' = Append(trace, "activeWindow")
            /\ pc' = "save_widget_image"
            /\ w' = Some(main_window)
            /\ UNCHANGED dialogs
       ELSE /\ trace' = Append(Append(trace, "activeWindow"), "show_message_box")
            /\ pc' = "show_message_box"
            /\ dialogs' = Append(dialogs, ErrorBox("Couldn't find main window."))
            /\ UNCHANGED w
    /\ UNCHANGED <<commands, handler, scale, img, save_path, invoked, entered, chosen,
                   rendered, written, stdout, raised>>

\* save_active_view_image(scale); dh is what
\* DockHandler.getActiveDockHandler() returns, and dh.getViewFrame() and
\* vf.getCurrentWidget() are attribute lookups on whatever the previous call
\* returned
SaveActiveViewImage(dh) ==
    /\ pc = "save_active_view_image"
    /\ looked' = Some(dh)
    /\ IF dh = None
       THEN /\ trace' = Append(Append(trace, "getActiveDockHandler"), "raise")
            /\ Raise("AttributeError")
       ELSE IF Get(dh).viewFrame = None
       THEN /\ trace' = Append(Append(trace, "getActiveDockHandler"), "raise")
            /\ Raise("AttributeError")
       ELSE /\ trace' = Append(trace, "getActiveDockHandler")
            /\ pc' = "save_widget_image"
            /\ w' = Some(Get(Get(dh).viewFrame).currentWidget)
            /\ UNCHANGED <<handler, scale, img, save_path, raised>>
    /\ UNCHANGED <<commands, invoked, entered, chosen, outputs>>

\* variant: the save prompt opens on a pixmap nothing was rendered into
SaveWidgetImageNoRender ==
    /\ pc = "save_widget_image"
    /\ Get(w) # None
    /\ img' = Some(QPixmap(ScaledSize(Rect(Get(Get(w))), Get(scale)).size, Get(scale)))
    /\ trace' = Append(trace, "get_save_filename_input")
    /\ pc' = "get_save_filename_input"
    /\ UNCHANGED <<commands, handler, scale, w, save_path, history, outputs, raised>>

\* ---- save_widget_image(w, scale) ----------------------------------------------
\* lines 54-66: render the widget into a pixmap, then open the save prompt
SaveWidgetImage ==
    /\ pc = "save_widget_image"
    /\ IF Get(w) = None
       THEN /\ trace' = Append(trace, "raise")
            /\ Raise("AttributeError")
            /\ UNCHANGED rendered
       ELSE LET widget == Get(Get(w))
                r      == Rect(widget)
                scaled == ScaledSize(r, Get(scale))
                pixmap == QPixmap(scaled.size, Get(scale))
            IN  /\ img' = Some(pixmap)
                /\ rendered' = Some([widget |-> widget, scale |-> Get(scale),
                                     target |-> pixmap, region |-> scaled.r])
                /\ trace' = Append(Append(trace, "render"), "get_save_filename_input")
                /\ pc' = "get_save_filename_input"
                /\ UNCHANGED <<handler, scale, w, save_path, raised>>
    /\ UNCHANGED <<commands, history, written, dialogs, stdout>>

\* variant: a cancelled save prompt is reported as a failed save
SaveFilenameReturnsCancelFails(answer) ==
    /\ pc = "get_save_filename_input"
    /\ chosen' = answer
    /\ IF answer # None
       THEN /\ trace' = Append(trace, "get_save_filename_input:ok")
            /\ pc' = "img.save"
            /\ save_path' = answer
            /\ UNCHANGED dialogs
       ELSE /\ trace' = Append(Append(trace, "get_save_filename_input:cancel"), "show_message_box")
            /\ dialogs' = Append(dialogs, ErrorBox("Failed to save screenshot."))
            /\ pc' = "show_message_box"
            /\ UNCHANGED save_path
    /\ UNCHANGED <<commands, handler, scale, w, img, invoked, entered, looked,
                   rendered, written, stdout, raised>>

\* lines 66-68: the save prompt returns: None when the user cancelled
SaveFilenameReturns(answer) ==
    /\ pc = "get_save_filename_input"
    /\ chosen' = answer
    /\ IF answer # None
       THEN /\ trace' = Append(trace, "get_save_filename_input:ok")
            /\ pc' = "img.save"
            /\ save_path' = answer
            /\ UNCHANGED <<handler, scale, w, img>>
       ELSE /\ trace' = Append(trace, "get_save_filename_input:cancel")
            /\ Return
    /\ UNCHANGED <<commands, invoked, entered, looked, outputs, raised>>

\* variant: the result of img.save is not looked at
SaveAttemptUnchecked(path, diskOk) ==
    /\ written' = Append(written, [path |-> path, ok |-> diskOk /\ ~Get(img).null])
    /\ trace' = Append(Append(trace, "img.save"), "print")
    /\ stdout' = Append(stdout, <<"Screenshot saved to ", path, " successfully.">>)
    /\ Return
    /\ UNCHANGED <<dialogs, raised>>

\* lines 71-79: decode the path, save, and report.  QPixmap.save of the null
\* pixmap fails; otherwise the disk decides (diskOk).
SaveAttempt(path, diskOk) ==
    /\ written' = Append(written, [path |-> path, ok |-> diskOk /\ ~Get(img).null])
    /\ IF diskOk /\ ~Get(img).null
       THEN /\ trace' = Append(Append(trace, "img.save"), "print")
            /\ stdout' = Append(stdout, <<"Screenshot saved to ", path, " successfully.">>)
            /\ Return
            /\ UNCHANGED dialogs
       ELSE /\ trace' = Append(Append(trace, "img.save"), "show_message_box")
            /\ dialogs' = Append(dialogs, ErrorBox("Failed to save screenshot."))
            /\ pc' = "show_message_box"
            /\ UNCHANGED <<locals, stdout>>
    /\ UNCHANGED raised

ImgSave(diskOk) ==
    /\ pc = "img.save"
    /\ IF DecodeAscii(Get(save_path)) = None
       THEN /\ trace' = Append(trace, "raise")
            /\ Raise("UnicodeDecodeError")
            /\ UNCHANGED <<written, dialogs, stdout>>
       ELSE SaveAttempt(Get(DecodeAscii(Get(save_path))), diskOk)
    /\ UNCHANGED <<commands, history, rendered>>

\* variant: after a failed save the save prompt is opened again
MessageBoxReturnsRetry ==
    /\ pc = "show_message_box"
    /\ IF written # <<>>
       THEN /\ pc' = "get_save_filename_input"
            /\ trace' = Append(trace, "get_save_filename_input")
            /\ UNCHANGED locals
       ELSE /\ Return
            /\ UNCHANGED trace
    /\ UNCHANGED <<commands, history, outputs, raised>>

\* the user dismisses the message box and the handler returns
MessageBoxReturns ==
    /\ pc = "show_message_box"
    /\ Return
    /\ UNCHANGED <<commands, history, trace, outputs, raised>>

\* ---- the specification ----------------------------------------------------------
Step ==
    \/ UiSaveViewImage1x
    \/ UiSaveViewImage2x
    \/ UiSaveWindowImage1x
    \/ UiSaveWindowImage2x
    \/ UiSaveViewImageCustom
    \/ UiSaveWindowImageCustom
    \/ \E answer \in {None} \cup {Some(v) : v \in ScaleInputs} :
          UiSaveViewImageCustomAnswered(answer)
    \/ \E answer \in {None} \cup {Some(v) : v \in ScaleInputs} :
          UiSaveWindowImageCustomAnswered(answer)
    \/ \E main_window \in WindowStates : SaveActiveWindowImage(main_window)
    \/ \E dh \in DockHandlerStates : SaveActiveViewImage(dh)
    \/ SaveWidgetImage
    \/ \E answer \in {None} \cup {Some(p) : p \in Paths} : SaveFilenameReturns(answer)
    \/ \E diskOk \in BOOLEAN : ImgSave(diskOk)
    \/ MessageBoxReturns

Next ==
    \/ \E i \in 1..Len(commands) : Invoke(i)
    \/ Step

Spec == Init /\ [][Next]_vars

\* the host's event loop keeps running the handler, and every modal call it
\* opened is eventually answered
FairSpec == Spec /\ WF_vars(Step)

\* ---- what the claims speak of ---------------------------------------------------
Has(e) == \E i \in 1..Len(trace) : trace[i] = e
Count(e) == Cardinality({i \in 1..Len(trace) : trace[i] = e})
Last(q) == q[Len(q)]
Shown(text) == \E i \in 1..Len(dialogs) : dialogs[i] = ErrorBox(text)
IsPrefix(p, q) == Len(p) <= Len(q) /\ \A i \in 1..Len(p) : p[i] = q[i]

\* what each registered label names: the target, and the scale when it is fixed
Named(label) ==
    CASE label = "Screenshot Ninja \\ Save view image @ 1x..." -> [target |-> "view_widget", scale |-> Some(1)]
      [] label = "Screenshot Ninja \\ Save view image @ 2x..." -> [target |-> "view_widget", scale |-> Some(2)]
      [] label = "Screenshot Ninja \\ Save view image..." -> [target |-> "view_widget", scale |-> None]
      [] label = "Screenshot Ninja \\ Save window image @ 1x..." -> [target |-> "main_window", scale |-> Some(1)]
      [] label = "Screenshot Ninja \\ Save window image @ 2x..." -> [target |-> "main_window", scale |-> Some(2)]
      [] label = "Screenshot Ninja \\ Save window image..." -> [target |-> "main_window", scale |-> None]
InvokedNames == Named(commands[invoked].label)
\* nothing reached the user or the disk
Silent == written = <<>> /\ dialogs = <<>> /\ stdout = <<>> /\ raised = ""
\* the invocation is over: the handler returned, or is only waiting for the
\* user to dismiss its message box
Ended == invoked # 0 /\ pc \in {"idle", "show_message_box"}

\* the lookup of the last invocation found no widget to capture
WidgetNotLocated ==
    /\ invoked # 0
    /\ looked # None
    /\ IF InvokedNames.target = "main_window"
       THEN Get(looked) = None
       ELSE \/ Get(looked) = None
            \/ Get(Get(looked)).viewFrame = None
            \/ Get(Get(Get(looked)).viewFrame).currentWidget = None

\* C1: a cancelled prompt aborts silently: cancelling the multiplier prompt
\* leaves no lookup, no render and no save prompt, cancelling the save prompt
\* is the last thing that happens, and either way nothing is written, shown or
\* printed and the handler has returned.
C1_CancelIsSilent ==
    /\ entered = None /\ Has("get_int_input") /\ pc # "get_int_input" =>
          /\ trace = <<"get_int_input", "get_int_input:cancel">>
          /\ pc = "idle" /\ Silent
          /\ looked = None /\ rendered = None /\ chosen = None
    /\ chosen = None /\ Has("get_save_filename_input") /\ pc # "get_save_filename_input" =>
          /\ Last(trace) = "get_save_filename_input:cancel"
          /\ Count("get_save_filename_input") = 1
          /\ pc = "idle" /\ Silent

C1_Witness ==
    /\ Has("get_int_input:ok")
    /\ Has("get_save_filename_input:cancel")
    /\ pc = "idle"

\* C2: a window command that finds no active window shows exactly the one
\* dialog "Couldn't find main window." and renders, prompts and writes
\* nothing; when a window is found (and in the view commands) that dialog is
\* never shown.
C2_NoWindowDialog ==
    /\ invoked # 0 /\ InvokedNames.target = "main_window" /\ looked = Some(None) =>
          /\ dialogs = <<ErrorBox("Couldn't find main window.")>>
          /\ rendered = None /\ chosen = None /\ written = <<>> /\ stdout = <<>>
          /\ ~Has("get_save_filename_input")
          /\ raised = ""
    /\ ~(invoked # 0 /\ InvokedNames.target = "main_window" /\ looked = Some(None)) =>
          ~Shown("Couldn't find main window.")

C2_Witness ==
    /\ invoked # 0 /\ InvokedNames.target = "main_window" /\ InvokedNames.scale = None
    /\ looked = Some(None)
    /\ pc = "idle"

\* C3: once a path is chosen, "Failed to save screenshot." is shown exactly
\* when the write fails: a failed write shows it and prints nothing, a
\* successful one prints the success line and shows nothing.
C3_SaveFailureDialog ==
    /\ \A i \in 1..Len(written) :
          IF written[i].ok
          THEN stdout = <<<<"Screenshot saved to ", written[i].path, " successfully.">>>> /\ dialogs = <<>>
          ELSE dialogs = <<ErrorBox("Failed to save screenshot.")>> /\ stdout = <<>>
    /\ Shown("Failed to save screenshot.") => written # <<>> /\ ~Last(written).ok
    /\ stdout # <<>> => written # <<>> /\ Last(written).ok

C3_Witness ==
    /\ written # <<>> /\ ~Last(written).ok
    /\ rendered # None /\ ~Get(rendered).target.null
    /\ Shown("Failed to save screenshot.")

\* C4 (as claimed): whenever the widget cannot be located, the invocation
\* ends with one error dialog, without an exception and without render,
\* prompt or write.
C4_NotLocatedShowsDialog ==
    WidgetNotLocated /\ pc = "idle" =>
        /\ raised = ""
        /\ Len(dialogs) = 1
        /\ rendered = None /\ chosen = None /\ written = <<>>

\* C5 (as claimed): every path chosen in the save prompt is written to, that
\* path and no other, and the invocation ends in the success line or the
\* save-failure dialog.
C5_ChosenPathIsWritten ==
    chosen # None /\ Ended =>
        /\ Len(written) = 1
        /\ written[1].path = Get(chosen)
        /\ stdout # <<>> \/ Shown("Failed to save screenshot.")

\* C6 (as claimed): whenever a widget is rendered the scale is >= 1.
C6_ScaleIsPositive ==
    rendered # None => Get(rendered).scale >= 1

\* C7 (as claimed): the pixmap rendered into is W*S by H*S, and the widget's
\* rectangle is the region rendered, unchanged.
C7_BufferIsScaledRect ==
    rendered # None =>
        /\ Get(rendered).target.width = Get(rendered).widget.width * Get(rendered).scale
        /\ Get(rendered).target.height = Get(rendered).widget.height * Get(rendered).scale
        /\ Get(rendered).region = Rect(Get(rendered).widget)

\* C8: six commands with distinct labels are registered, and each captures
\* the target its label names (looking up that target only) at the scale it
\* names: 1, 2, or the integer entered in the multiplier prompt.
C8_DispatchMatchesLabel ==
    /\ Len(commands) = 6
    /\ \A i, j \in 1..Len(commands) : commands[i].label = commands[j].label => i = j
    /\ invoked # 0 =>
          /\ Has("activeWindow") => InvokedNames.target = "main_window"
          /\ Has("getActiveDockHandler") => InvokedNames.target = "view_widget"
          /\ Has("get_int_input") => InvokedNames.scale = None
          /\ rendered # None =>
                /\ Get(rendered).widget.id = InvokedNames.target
                /\ Some(Get(rendered).scale) =
                      (IF InvokedNames.scale = None THEN entered ELSE InvokedNames.scale)

C8_Witness ==
    /\ invoked # 0 /\ InvokedNames = [target |-> "main_window", scale |-> Some(2)]
    /\ rendered # None /\ Get(rendered).scale = 2 /\ Get(rendered).widget.id = "main_window"

\* C9: the steps of an invocation happen in the one fixed order, none skipped:
\* (multiplier prompt, answer,) lookup, render, save prompt, answer, write;
\* a write has a chosen path before it and a save prompt has a render before it.
MainSteps ==
    LET IsMain(e) == e \in {"get_int_input", "get_int_input:ok", "activeWindow",
                            "getActiveDockHandler", "render", "get_save_filename_input",
                            "get_save_filename_input:ok", "img.save"}
        Kind(e) == IF e \in {"activeWindow", "getActiveDockHandler"} THEN "lookup" ELSE e
        main == SelectSeq(trace, IsMain)
    IN  [i \in 1..Len(main) |-> Kind(main[i])]
FixedOrder ==
    (IF InvokedNames.scale = None THEN <<"get_int_input", "get_int_input:ok">> ELSE <<>>)
    \o <<"lookup", "render", "get_save_filename_input", "get_save_filename_input:ok", "img.save">>
C9_FixedOrder ==
    invoked # 0 =>
        /\ IsPrefix(MainSteps, FixedOrder)
        /\ Has("render") <=> rendered # None
        /\ Has("get_save_filename_input:ok") <=> chosen # None
        /\ Has("img.save") <=> written # <<>>
        /\ Has("activeWindow") \/ Has("getActiveDockHandler") <=> looked # None

C9_Witness ==
    /\ invoked # 0 /\ InvokedNames.scale = None
    /\ MainSteps = FixedOrder
    /\ stdout # <<>>

\* C10: an invocation makes at most one save attempt, shows at most one
\* dialog and opens at most one save prompt; it ends once its prompts are
\* answered; and when it has ended no local of it is left.
C10_AtMostOnce ==
    /\ Len(written) <= 1
    /\ Len(dialogs) <= 1
    /\ Count("get_save_filename_input") <= 1
    /\ Count("get_int_input") <= 1
    /\ pc = "idle" => handler = "" /\ scale = None /\ w = None /\ img = None /\ save_path = None
C10_OneAttemptThenEnds == []C10_AtMostOnce /\ (pc # "idle" ~> pc = "idle")

C10_Witness ==
    /\ pc = "idle"
    /\ Len(written) = 1 /\ ~written[1].ok
    /\ Len(dialogs) = 1

====
